---- MODULE Spec2Model ----
(***************************************************************************)
(* AI Judgment Trail (AJT) example scripts: the three record builders      *)
(* (create_ajt_event, log_ai_judgment, AJTCallbackHandler.on_llm_start),   *)
(* the JSONL writer write_ajt_log, the demo's main and the "ajt" logger.   *)
(***************************************************************************)
EXTENDS Integers, Sequences, FiniteSets, TLC

\* ------------------------------------------------------------- bounds
\* Largest wall-clock instant the model lets the clock reach.
MaxClock == 2
\* Clock instants per calendar day (strftime('%Y%m%d') changes every DayLen).
DayLen == 2
\* Most records the builders construct in one run.
MaxBuilt == 2

\* ------------------------------------------------------- Python values
\* A Python value: its type tag t, its text v, a number n (the instant of a
\* timestamp, the serial of a uuid) and, for a dict, its items in insertion
\* order as <<key, value>> pairs.
Val(t, v, n, items) == [t |-> t, v |-> v, n |-> n, items |-> items]
Str(s) == Val("str", s, 0, <<>>)
None == Val("none", "", 0, <<>>)
Bool(b) == Val("bool", IF b THEN "True" ELSE "False", 0, <<>>)
PyInt(n) == Val("int", "", n, <<>>)
Dict(items) == Val("dict", "", 0, items)
\* A list, its elements as <<index, value>> pairs.
List(elems) == Val("list", "", 0, [i \in 1..Len(elems) |-> <<"", elems[i]>>])
\* xs[-1]
Last(xs) == xs.items[Len(xs.items)][2]
\* An object json cannot represent (e.g. object(), a set).
Obj == Val("object", "", 0, <<>>)
\* uuid.UUID instance number k (what LangChain passes as run_id).
UuidObj(k) == Val("UUID", "", k, <<>>)

\* datetime.now(timezone.utc).isoformat() read at instant t.
IsoFormat(t) == Val("str", "iso", t, <<>>)
\* str(uuid4()): the k-th uuid drawn.
StrUuid(k) == Val("str", "uuid", k, <<>>)
\* f"demo-session-{datetime.now(timezone.utc).strftime('%Y%m%d')}" at instant t.
DemoSession(t) == Val("str", "demo-session-", t \div DayLen, <<>>)

\* Python truthiness, as used by `x or y`.
Truthy(x) ==
    CASE x.t = "none" -> FALSE
      [] x.t = "str" -> ~(x.v = "" /\ x.n = 0)
      [] x.t = "bool" -> x.v = "True"
      [] x.t = "int" -> x.n # 0
      [] x.t \in {"dict", "list"} -> x.items # <<>>
      [] OTHER -> TRUE
\* x or y
Or(x, y) == IF Truthy(x) THEN x ELSE y

\* d[key] on an ordered dict given as its items (the key is present).
Get(items, key) ==
    LET i == CHOOSE i \in 1..Len(items) : items[i][1] = key
    IN  items[i][2]
HasKey(items, key) == \E i \in 1..Len(items) : items[i][1] = key
\* d.get(key, default)
GetOr(items, key, default) == IF HasKey(items, key) THEN Get(items, key) ELSE default
Keys(items) == [i \in 1..Len(items) |-> items[i][1]]

\* The 9 required fields, in schema order.
RequiredFields ==
    <<"timestamp", "run_id", "model", "decision", "risk_level",
      "human_in_loop", "policy_version", "app_version", "session_id">>

\* ------------------------------------------------------------ builders
\* dict(a, **b): b's values replace a's under equal keys, new keys are appended.
RECURSIVE DictUpdate(_, _)
DictUpdate(a, b) ==
    IF b = <<>> THEN a
    ELSE LET k == Head(b)[1]
             a2 == IF HasKey(a, k)
                   THEN [i \in 1..Len(a) |-> IF a[i][1] = k THEN Head(b) ELSE a[i]]
                   ELSE Append(a, Head(b))
         IN  DictUpdate(a2, Tail(b))

\* create_ajt_event had it spliced the context into the record
\* ({..., "reason": reason, **(context or {})}) instead of nesting it.
create_ajt_event_spliced(decision, reason, risk_level, model, human_in_loop, context, t1, u, t2) ==
    DictUpdate(
        << <<"timestamp", IsoFormat(t1)>>,
           <<"run_id", StrUuid(u)>>,
           <<"model", model>>,
           <<"decision", decision>>,
           <<"risk_level", risk_level>>,
           <<"human_in_loop", human_in_loop>>,
           <<"policy_version", Str("demo-v1.0")>>,
           <<"app_version", Str("demo-0.1")>>,
           <<"session_id", DemoSession(t2)>>,
           <<"reason", reason>> >>,
        Or(context, Dict(<<>>)).items)

\* create_ajt_event's dict literal; t1 and t2 are the two clock reads, u the
\* uuid drawn.
create_ajt_event(decision, reason, risk_level, model, human_in_loop, context, t1, u, t2) ==
    << <<"timestamp", IsoFormat(t1)>>,
       <<"run_id", StrUuid(u)>>,
       <<"model", model>>,
       <<"decision", decision>>,
       <<"risk_level", risk_level>>,
       <<"human_in_loop", human_in_loop>>,
       <<"policy_version", Str("demo-v1.0")>>,
       <<"app_version", Str("demo-0.1")>>,
       <<"session_id", DemoSession(t2)>>,
       <<"reason", reason>>,
       <<"context", Or(context, Dict(<<>>))>> >>

\* log_ai_judgment had it drawn run_id once, when the function was defined
\* (a default argument run_id=str(uuid4())) instead of on every call.
ajt_record_logger_uuid_once(model, decision, risk_level, policy_version, human_in_loop, session_id, t, u, u2) ==
    << <<"timestamp", IsoFormat(t)>>,
       <<"run_id", StrUuid(0)>>,
       <<"model", model>>,
       <<"decision", decision>>,
       <<"risk_level", risk_level>>,
       <<"human_in_loop", human_in_loop>>,
       <<"policy_version", policy_version>>,
       <<"app_version", Str("1.0.0")>>,
       <<"session_id", Or(session_id, StrUuid(u2))>> >>

\* log_ai_judgment's ajt_record; t is the clock read, u and u2 the uuids drawn
\* (u2 is used only when session_id is falsy).
ajt_record_logger(model, decision, risk_level, policy_version, human_in_loop, session_id, t, u, u2) ==
    << <<"timestamp", IsoFormat(t)>>,
       <<"run_id", StrUuid(u)>>,
       <<"model", model>>,
       <<"decision", decision>>,
       <<"risk_level", risk_level>>,
       <<"human_in_loop", human_in_loop>>,
       <<"policy_version", policy_version>>,
       <<"app_version", Str("1.0.0")>>,
       <<"session_id", Or(session_id, StrUuid(u2))>> >>

\* on_llm_start's ajt_record. serialized and kwargs are dicts (items),
\* policy_result the dict the engine returned, self the handler's fields.
ajt_record_callback(self, serialized, kwargs, policy_result, t) ==
    << <<"timestamp", IsoFormat(t)>>,
       <<"run_id", GetOr(kwargs, "run_id", Str("unknown"))>>,
       <<"model", Last(GetOr(serialized, "id", List(<<Str("unknown")>>)))>>,
       <<"decision", Get(policy_result, "decision")>>,
       <<"risk_level", Get(policy_result, "risk")>>,
       <<"human_in_loop", GetOr(policy_result, "human_required", Bool(FALSE))>>,
       <<"policy_version", self.policy_version>>,
       <<"app_version", self.app_version>>,
       <<"session_id", self.session_id>> >>

\* ExamplePolicyEngine.evaluate: "delete all" in prompt.lower().
ExamplePolicyEngine_evaluate(prompt) ==
    IF prompt \in {"Delete all user records", "delete all"}
    THEN << <<"decision", Str("block")>>, <<"risk", Str("high")>>,
            <<"human_required", Bool(TRUE)>> >>
    ELSE << <<"decision", Str("allow")>>, <<"risk", Str("low")>>,
            <<"human_required", Bool(FALSE)>> >>

\* ------------------------------------------------------- serialization
\* A serialized value: its JSON (or Python repr) kind j, text s, number n and,
\* for an object, its members in order as <<key, serialized value>> pairs.
Enc(j, s, n, members) == [j |-> j, s |-> s, n |-> n, members |-> members]

\* Whether json.dumps accepts x (no TypeError).
RECURSIVE Serializable(_)
Serializable(x) ==
    CASE x.t \in {"str", "bool", "none", "int"} -> TRUE
      [] x.t \in {"dict", "list"} ->
            \A i \in 1..Len(x.items) : Serializable(x.items[i][2])
      [] OTHER -> FALSE

\* The JSON value json.dumps writes for x; kind "TypeError" marks the place
\* where the encoder raises.
RECURSIVE JsonEnc(_)
JsonEnc(x) ==
    CASE x.t = "str" -> Enc("string", x.v, x.n, <<>>)
      [] x.t = "bool" -> Enc(IF x.v = "True" THEN "true" ELSE "false", "", 0, <<>>)
      [] x.t = "none" -> Enc("null", "", 0, <<>>)
      [] x.t = "int" -> Enc("number", "", x.n, <<>>)
      [] x.t = "dict" ->
            Enc("object", "", 0,
                [i \in 1..Len(x.items) |-> <<x.items[i][1], JsonEnc(x.items[i][2])>>])
      [] x.t = "list" ->
            Enc("array", "", 0,
                [i \in 1..Len(x.items) |-> <<"", JsonEnc(x.items[i][2])>>])
      [] OTHER -> Enc("TypeError", "", 0, <<>>)

\* repr(x), as the f-string f"AJT: {ajt_record}" formats it.
RECURSIVE PyRepr(_)
PyRepr(x) ==
    CASE x.t \in {"dict", "list"} ->
            Enc(x.t, "", 0,
                [i \in 1..Len(x.items) |-> <<x.items[i][1], PyRepr(x.items[i][2])>>])
      [] OTHER -> Enc(x.t, x.v, x.n, <<>>)

\* A text: how it was formatted, and the value it spells.
\* json.dumps(event, ensure_ascii=False)
json_dumps(x) == [fmt |-> "json", body |-> JsonEnc(x)]
\* f"AJT: {ajt_record}"
fstring_AJT(x) == [fmt |-> "AJT: repr", body |-> PyRepr(x)]

\* --------------------------------------------------------------- state
VARIABLES
    now,     \* the wall clock (datetime.now)
    uuids,   \* how many uuid4() values have been drawn
    built,   \* history: every record built, with who built it, when, and the
             \* caller's arguments
    events,  \* the caller's list of events (main's `events`)
    file,    \* ajt_trace.jsonl: the chunks on disk
    log,     \* the "ajt" logger's stream: the lines its handler has emitted
    wr,      \* per caller: the activation of write_ajt_log
    pc       \* main's position

vars == <<now, uuids, built, events, file, log, wr, pc>>

\* Threads that may call write_ajt_log / log_ai_judgment.
Callers == {"c1", "c2"}

\* ------------------------------------------------------------ the file
\* A line of text (text + '\n') reaches the disk in two chunks: part 1 is its
\* first bytes, part 2 the rest including the newline.
LineChunks(text) == << [text |-> text, part |-> 1], [text |-> text, part |-> 2] >>
\* A zero byte run (the hole left by a write past the end of the file).
Nul == [text |-> [fmt |-> "nul", body |-> Enc("null", "", 0, <<>>)], part |-> 0]

Max(a, b) == IF a >= b THEN a ELSE b
Min(a, b) == IF a <= b THEN a ELSE b

\* os.write of `chunks` at offset pos of f (the descriptor is not O_APPEND).
WriteAt(f, pos, chunks) ==
    [k \in 1..Max(Len(f), pos + Len(chunks)) |->
        IF k > pos /\ k <= pos + Len(chunks) THEN chunks[k - pos]
        ELSE IF k <= Len(f) THEN f[k]
        ELSE Nul]

\* The file split at newlines: each element is the chunks of one line.
RECURSIVE SplitLines(_, _)
SplitLines(f, cur) ==
    IF f = <<>> THEN (IF cur = <<>> THEN <<>> ELSE <<cur>>)
    ELSE IF Head(f).part = 2
         THEN <<Append(cur, Head(f))>> \o SplitLines(Tail(f), <<>>)
         ELSE SplitLines(Tail(f), Append(cur, Head(f)))
ReadLines(f) == SplitLines(f, <<>>)

\* Whether json.loads accepts the line: it is the two chunks of one JSON text.
Parseable(line) ==
    /\ Len(line) = 2
    /\ line[1].part = 1 /\ line[2].part = 2
    /\ line[1].text = line[2].text
    /\ line[1].text.fmt = "json"
    /\ line[1].text.body.j # "TypeError"

IsPrefix(s, t) == Len(s) <= Len(t) /\ SubSeq(t, 1, Len(s)) = s

RECURSIVE Flatten(_)
Flatten(ss) == IF ss = <<>> THEN <<>> ELSE Head(ss) \o Flatten(Tail(ss))

\* ------------------------------------------------------- write_ajt_log
\* The loop body had it streamed the encoding into the file
\* (json.dump(event, f); f.write('\n')): the first bytes of an event are
\* written before the encoder meets the value it cannot represent.
f_write_dumps_streamed(buf, event) ==
    IF Serializable(event) THEN buf \o LineChunks(json_dumps(event))
    ELSE Append(buf, [text |-> json_dumps(event), part |-> 1])

\* The loop body had it stamped the event when writing it
\* (json.dumps({**event, "timestamp": datetime.now(timezone.utc).isoformat()})).
f_write_dumps_restamped(buf, event) ==
    IF ~Serializable(event) THEN buf
    ELSE IF event.t # "dict" THEN buf \o LineChunks(json_dumps(event))
    ELSE buf \o LineChunks(json_dumps(
            Dict(DictUpdate(event.items, << <<"timestamp", IsoFormat(now)>> >>))))

\* f.write(json.dumps(event, ensure_ascii=False) + '\n') on the buffered
\* file: the whole string is built first, so an event json cannot represent
\* raises before anything is handed to f.write.
f_write_dumps(buf, event) ==
    IF Serializable(event) THEN buf \o LineChunks(json_dumps(event)) ELSE buf

Idle == [pc |-> "idle", events |-> <<>>, i |-> 0, buf |-> <<>>, pos |-> 0,
         prior |-> <<>>, reported |-> FALSE]

\* write_ajt_log(evs) is called by c; prior remembers the file as it was.
Call(c, evs) ==
    wr' = [wr EXCEPT ![c] = [Idle EXCEPT !.pc = "open", !.events = evs, !.prior = file]]

\* open(output_path, 'w'): creates or truncates, offset 0.
Open(c) ==
    /\ wr[c].pc = "open"
    /\ file' = <<>>
    /\ wr' = [wr EXCEPT ![c].pc = "loop", ![c].i = 1, ![c].pos = 0]
    /\ UNCHANGED <<now, uuids, built, events, log, pc>>

\* One iteration of `for event in events`, or the end of the loop.
Iterate(c) ==
    /\ wr[c].pc = "loop"
    /\ LET w == wr[c] IN
       IF w.i > Len(w.events)
       THEN wr' = [wr EXCEPT ![c].pc = "exit"]
       ELSE wr' = [wr EXCEPT
                    ![c].buf = f_write_dumps(w.buf, w.events[w.i]),
                    ![c].pc = IF Serializable(w.events[w.i]) THEN "loop" ELSE "raise",
                    ![c].i = IF Serializable(w.events[w.i]) THEN w.i + 1 ELSE w.i]
    /\ UNCHANGED <<now, uuids, built, events, file, log, pc>>

\* The buffered writer empties part of its buffer (it does when the buffer
\* fills, at whatever byte that happens).
Flush(c) ==
    /\ wr[c].pc \in {"loop", "exit", "raise"}
    /\ wr[c].buf # <<>>
    /\ \E k \in 1..Len(wr[c].buf) :
         /\ file' = WriteAt(file, wr[c].pos, SubSeq(wr[c].buf, 1, k))
         /\ wr' = [wr EXCEPT ![c].buf = SubSeq(wr[c].buf, k + 1, Len(wr[c].buf)),
                             ![c].pos = wr[c].pos + k]
    /\ UNCHANGED <<now, uuids, built, events, log, pc>>

\* The with block's exit: flush what is buffered and close; an exception
\* raised in the loop propagates to the caller after the close.
Close(c) ==
    /\ wr[c].pc \in {"exit", "raise"}
    /\ file' = WriteAt(file, wr[c].pos, wr[c].buf)
    /\ wr' = [wr EXCEPT ![c].buf = <<>>,
                        ![c].pos = wr[c].pos + Len(wr[c].buf),
                        ![c].pc = IF wr[c].pc = "exit" THEN "closed" ELSE "raised"]
    /\ UNCHANGED <<now, uuids, built, events, log, pc>>

\* The prints after the with block ("AJT log written to ...").
Report(c) ==
    /\ wr[c].pc = "closed"
    /\ wr' = [wr EXCEPT ![c].pc = "done", ![c].reported = TRUE]
    /\ UNCHANGED <<now, uuids, built, events, file, log, pc>>

\* Time passes.
Tick ==
    /\ now < MaxClock
    /\ now' = now + 1
    /\ UNCHANGED <<uuids, built, events, file, log, wr, pc>>

\* ------------------------------------------------- a caller of the demo API
\* An entry of the history: the record as built, its builder, the instant of
\* the call and the caller's arguments (a dict of those it passed).
Built(rec, by, at, call) == [rec |-> rec, by |-> by, at |-> at, call |-> call]

\* The (decision, context) arguments callers pass to create_ajt_event: a
\* well-formed decision without context, an empty decision with a context
\* whose key is a required field's name, and no decision with a context json
\* cannot represent.
CreateCalls ==
    { <<Str("STOP"), None>>,
      <<Str(""), Dict(<< <<"decision", Str("ALLOW")>> >>)>>,
      <<None, Dict(<< <<"payload", Obj>> >>)>> }

\* events.append(create_ajt_event(decision, reason, risk_level="high",
\* context=context)); model and human_in_loop take their defaults.
CreateAjtEvent ==
    /\ wr["c1"].pc = "idle"
    /\ Len(built) < MaxBuilt
    /\ \E dc \in CreateCalls, t2 \in now..Min(now + 1, MaxClock) :
         LET decision == dc[1]
             context == dc[2]
             rec == create_ajt_event(decision, Str("missing_citation"), Str("high"),
                                     Str("demo-agent"), Bool(FALSE), context,
                                     now, uuids + 1, t2)
             call == << <<"decision", decision>>, <<"reason", Str("missing_citation")>>,
                        <<"risk_level", Str("high")>>, <<"context", context>> >>
         IN  /\ events' = Append(events, Dict(rec))
             /\ built' = Append(built, Built(rec, "create_ajt_event", now, call))
             /\ uuids' = uuids + 1
             /\ now' = t2
    /\ UNCHANGED <<file, log, wr, pc>>

\* write_ajt_log(events)
WriteAjtLog ==
    /\ wr["c1"].pc = "idle"
    /\ events # <<>>
    /\ Call("c1", events)
    /\ UNCHANGED <<now, uuids, built, events, file, log, pc>>

\* A line left in ajt_trace.jsonl by an earlier run.
OldLine ==
    LineChunks(json_dumps(Dict(
        create_ajt_event(Str("ALLOW"), Str("human_approved"), Str("high"),
                         Str("demo-agent"), Bool(TRUE), None, 0, 0, 0))))

InitWrite ==
    /\ now = 0
    /\ uuids = 0
    /\ built = <<>>
    /\ events = <<>>
    /\ file \in {<<>>, OldLine, OldLine \o OldLine}
    /\ log = <<>>
    /\ wr = [c \in Callers |-> Idle]
    /\ pc = "caller"

NextWrite ==
    \/ CreateAjtEvent
    \/ WriteAjtLog
    \/ Open("c1")
    \/ Iterate("c1")
    \/ Flush("c1")
    \/ Close("c1")
    \/ Report("c1")
    \/ Tick

\* A caller builds a batch with create_ajt_event and writes it with
\* write_ajt_log, single-threaded.
SpecWrite == InitWrite /\ [][NextWrite]_vars

\* ------------------------------------------------------ run_ajt_demo.py
\* scenario_hallucination_detection had the stub found citations: no event.
scenario_hallucination_detection_cited(t1, u, t2) == None

\* scenario_hallucination_detection(): has_citations is the stub False, so
\* the STOP event is returned (the `return None` path is not taken).
scenario_hallucination_detection(t1, u, t2) ==
    LET has_citations == FALSE IN
    IF ~has_citations
    THEN Dict(create_ajt_event(
            Str("STOP"), Str("missing_citation"), Str("high"), Str("demo-agent"),
            Bool(FALSE),
            Dict(<< <<"scenario", Str("hallucination_demo")>>,
                    <<"claim_type", Str("factual")>>,
                    <<"citations_found", PyInt(0)>>,
                    <<"rule_triggered", Str("R1_REQUIRE_EVIDENCE")>> >>),
            t1, u, t2))
    ELSE None

\* scenario_human_override(): human_approved is the stub True; t0 is the
\* clock read for approval_timestamp.
scenario_human_override(t0, t1, u, t2) ==
    LET human_approved == TRUE IN
    Dict(create_ajt_event(
        IF human_approved THEN Str("ALLOW") ELSE Str("STOP"),
        IF human_approved THEN Str("human_approved") ELSE Str("human_rejected"),
        Str("high"), Str("demo-agent"), Bool(TRUE),
        Dict(<< <<"scenario", Str("code_execution_demo")>>,
                <<"operation_type", Str("shell_command")>>,
                <<"reviewer", Str("demo_human")>>,
                <<"approval_timestamp", IsoFormat(t0)>> >>),
        t1, u, t2))

\* scenario_policy_compliance(): "v1.0" != "v2.0", so the STOP event is
\* returned.
scenario_policy_compliance(t1, u, t2) ==
    LET request_policy == Str("v1.0")
        current_policy == Str("v2.0")
    IN  IF request_policy # current_policy
        THEN Dict(create_ajt_event(
                Str("STOP"), Str("policy_version_mismatch"), Str("medium"),
                Str("demo-agent"), Bool(FALSE),
                Dict(<< <<"scenario", Str("policy_enforcement_demo")>>,
                        <<"requested_policy", request_policy>>,
                        <<"current_policy", current_policy>>,
                        <<"rule_triggered", Str("R2_ENFORCE_CURRENT_POLICY")>> >>),
                t1, u, t2))
        ELSE None

\* events.append(e), with the history entry of the event (none for None).
AppendEvent(e, call) ==
    /\ events' = Append(events, e)
    /\ built' = IF e = None THEN built
                ELSE Append(built, Built(e.items, "create_ajt_event", now, call))
    /\ uuids' = uuids + 1

\* main: events.append(scenario_hallucination_detection())
MainScenario1 ==
    /\ pc = "scenario1"
    /\ \E t2 \in now..Min(now + 1, MaxClock) :
         /\ AppendEvent(scenario_hallucination_detection(now, uuids + 1, t2),
                        << <<"decision", Str("STOP")>>, <<"risk_level", Str("high")>> >>)
         /\ now' = t2
    /\ pc' = "scenario2"
    /\ UNCHANGED <<file, log, wr>>

\* main: events.append(scenario_human_override())
MainScenario2 ==
    /\ pc = "scenario2"
    /\ \E t2 \in now..Min(now + 1, MaxClock) :
         /\ AppendEvent(scenario_human_override(now, now, uuids + 1, t2),
                        << <<"decision", Str("ALLOW")>>, <<"risk_level", Str("high")>> >>)
         /\ now' = t2
    /\ pc' = "scenario3"
    /\ UNCHANGED <<file, log, wr>>

\* main: events.append(scenario_policy_compliance())
MainScenario3 ==
    /\ pc = "scenario3"
    /\ \E t2 \in now..Min(now + 1, MaxClock) :
         /\ AppendEvent(scenario_policy_compliance(now, uuids + 1, t2),
                        << <<"decision", Str("STOP")>>, <<"risk_level", Str("medium")>> >>)
         /\ now' = t2
    /\ pc' = "filter"
    /\ UNCHANGED <<file, log, wr>>

\* [e for e in events if e is not None]
FilterNone(evs) == SelectSeq(evs, LAMBDA e : e # None)

\* main: events = [e for e in events if e is not None]; write_ajt_log(events)
MainWrite ==
    /\ pc = "filter"
    /\ events' = FilterNone(events)
    /\ Call("c1", FilterNone(events))
    /\ pc' = "write_ajt_log"
    /\ UNCHANGED <<now, uuids, built, file, log>>

\* main: write_ajt_log returned; the closing prints ("DEMO COMPLETE").
MainComplete ==
    /\ pc = "write_ajt_log"
    /\ wr["c1"].pc = "done"
    /\ pc' = "complete"
    /\ UNCHANGED <<now, uuids, built, events, file, log, wr>>

InitDemo ==
    /\ now = 0
    /\ uuids = 0
    /\ built = <<>>
    /\ events = <<>>
    /\ file \in {<<>>, OldLine, OldLine \o OldLine}
    /\ log = <<>>
    /\ wr = [c \in Callers |-> Idle]
    /\ pc = "scenario1"

NextDemo ==
    \/ MainScenario1
    \/ MainScenario2
    \/ MainScenario3
    \/ MainWrite
    \/ Open("c1")
    \/ Iterate("c1")
    \/ Flush("c1")
    \/ Close("c1")
    \/ Report("c1")
    \/ MainComplete
    \/ Tick

\* One run of python examples/run_ajt_demo.py.
SpecDemo == InitDemo /\ [][NextDemo]_vars

\* ------------------------------------- python_logger.py, langchain_callback.py
\* logger.info(msg) on the "ajt" logger: its handler writes msg and the
\* terminator in one call, under the handler's lock.
logger_info(stream, msg) == Append(stream, msg)

\* The calls of log_ai_judgment: the script's first two examples, and one
\* with required values missing (model=None, decision="").
LogCalls ==
    { << <<"model", Str("gpt-4")>>, <<"decision", Str("allow")>>,
         <<"risk_level", Str("low")>>, <<"policy_version", Str("v1.0")>> >>,
      << <<"model", Str("claude-3-opus")>>, <<"decision", Str("escalate")>>,
         <<"risk_level", Str("high")>>, <<"policy_version", Str("v1.0")>>,
         <<"human_in_loop", Bool(TRUE)>>,
         <<"session_id", Str("user-session-abc123")>> >>,
      << <<"model", None>>, <<"decision", Str("")>>,
         <<"risk_level", Str("low")>>, <<"policy_version", Str("v1.0")>> >> }

\* log_ai_judgment(**call): build ajt_record, logger.info(json.dumps(it)).
LogAiJudgment ==
    /\ Len(built) < MaxBuilt
    /\ \E call \in LogCalls :
         LET session_id == GetOr(call, "session_id", None)
             rec == ajt_record_logger(
                        Get(call, "model"), Get(call, "decision"),
                        Get(call, "risk_level"), Get(call, "policy_version"),
                        GetOr(call, "human_in_loop", Bool(FALSE)), session_id,
                        now, uuids + 1, uuids + 2)
         IN  /\ built' = Append(built, Built(rec, "log_ai_judgment", now, call))
             /\ log' = logger_info(log, json_dumps(Dict(rec)))
             /\ uuids' = IF Truthy(session_id) THEN uuids + 1 ELSE uuids + 2
    /\ UNCHANGED <<now, events, file, wr, pc>>

\* The policy engines handlers are built with: ExamplePolicyEngine, and a
\* caller's own engine whose result has no human_required.
PolicyEvaluate(engine, prompt) ==
    IF engine = "ExamplePolicyEngine" THEN ExamplePolicyEngine_evaluate(prompt)
    ELSE << <<"decision", Str("allow")>>, <<"risk", Str("low")>> >>
PolicyVersion(engine) ==
    IF engine = "ExamplePolicyEngine" THEN Str("policy-v2.3") ELSE Str("custom-v1")

\* The calls of on_llm_start: the script's handler on its two prompts (no
\* run_id passed), and a handler built with session_id="" called the way
\* LangChain calls it (run_id a UUID, no "id" in serialized).
CallbackCalls ==
    { [engine |-> "ExamplePolicyEngine", session_id |-> Str("demo-session-001"),
       app_version |-> Str("demo-v1.0"),
       serialized |-> << <<"id", List(<<Str("langchain"), Str("OpenAI")>>)>> >>,
       prompt |-> "Summarize the quarterly report", run_id |-> FALSE],
      [engine |-> "ExamplePolicyEngine", session_id |-> Str("demo-session-001"),
       app_version |-> Str("demo-v1.0"),
       serialized |-> << <<"id", List(<<Str("langchain"), Str("OpenAI")>>)>> >>,
       prompt |-> "Delete all user records", run_id |-> FALSE],
      [engine |-> "custom", session_id |-> Str(""),
       app_version |-> Str("1.0.0"),
       serialized |-> <<>>,
       prompt |-> "Summarize the quarterly report", run_id |-> TRUE] }

\* AJTCallbackHandler(...).on_llm_start(serialized, [prompt], **kwargs)
OnLlmStart ==
    /\ Len(built) < MaxBuilt
    /\ \E c \in CallbackCalls :
         LET self == [session_id |-> c.session_id, app_version |-> c.app_version,
                      policy_version |-> PolicyVersion(c.engine)]
             kwargs == IF c.run_id THEN << <<"run_id", UuidObj(uuids + 1)>> >> ELSE <<>>
             rec == ajt_record_callback(self, c.serialized, kwargs,
                                        PolicyEvaluate(c.engine, c.prompt), now)
             call == << <<"session_id", c.session_id>> >> \o kwargs
         IN  /\ built' = Append(built, Built(rec, "on_llm_start", now, call))
             /\ log' = logger_info(log, fstring_AJT(Dict(rec)))
             /\ uuids' = IF c.run_id THEN uuids + 1 ELSE uuids
    /\ UNCHANGED <<now, events, file, wr, pc>>

InitBuild ==
    /\ now = 0
    /\ uuids = 0
    /\ built = <<>>
    /\ events = <<>>
    /\ file = <<>>
    /\ log = <<>>
    /\ wr = [c \in Callers |-> Idle]
    /\ pc = "caller"

NextBuild ==
    \/ CreateAjtEvent
    \/ LogAiJudgment
    \/ OnLlmStart
    \/ Tick

\* Callers of the three builders, in any order.
SpecBuild == InitBuild /\ [][NextBuild]_vars

\* --------------------------------------------------- concurrent callers
\* Thread c builds an event and appends it to its own list.
ThreadCreate(c) ==
    /\ wr[c].pc = "idle"
    /\ Len(built) < MaxBuilt
    /\ LET rec == create_ajt_event(Str("STOP"), Str("missing_citation"), Str("high"),
                                   Str("demo-agent"), Bool(FALSE), None,
                                   now, uuids + 1, now)
       IN  /\ wr' = [wr EXCEPT ![c].events = Append(wr[c].events, Dict(rec))]
           /\ built' = Append(built, Built(rec, "create_ajt_event", now,
                                           << <<"decision", Str("STOP")>> >>))
           /\ uuids' = uuids + 1
    /\ UNCHANGED <<now, events, file, log, pc>>

\* Thread c calls write_ajt_log(its list), on the default filepath.
ThreadWrite(c) ==
    /\ wr[c].pc = "idle"
    /\ wr[c].events # <<>>
    /\ Call(c, wr[c].events)
    /\ UNCHANGED <<now, uuids, built, events, file, log, pc>>

\* Thread c calls log_ai_judgment("gpt-4", "allow", "low", "v1.0").
ThreadLog(c) ==
    /\ wr[c].pc = "idle"
    /\ Len(built) < MaxBuilt
    /\ LET call == << <<"model", Str("gpt-4")>>, <<"decision", Str("allow")>>,
                      <<"risk_level", Str("low")>>, <<"policy_version", Str("v1.0")>> >>
           rec == ajt_record_logger(Str("gpt-4"), Str("allow"), Str("low"), Str("v1.0"),
                                    Bool(FALSE), None, now, uuids + 1, uuids + 2)
       IN  /\ built' = Append(built, Built(rec, "log_ai_judgment", now, call))
           /\ log' = logger_info(log, json_dumps(Dict(rec)))
           /\ uuids' = uuids + 2
    /\ UNCHANGED <<now, events, file, wr, pc>>

InitConc ==
    /\ now = 0
    /\ uuids = 0
    /\ built = <<>>
    /\ events = <<>>
    /\ file = <<>>
    /\ log = <<>>
    /\ wr = [c \in Callers |-> Idle]
    /\ pc = "threads"

NextConc ==
    \/ \E c \in Callers :
         \/ ThreadCreate(c)
         \/ ThreadWrite(c)
         \/ ThreadLog(c)
         \/ Open(c)
         \/ Iterate(c)
         \/ Flush(c)
         \/ Close(c)
         \/ Report(c)
    \/ Tick

\* Two threads of one process that build events and write them to the same
\* sinks, with no coordination between them.
SpecConc == InitConc /\ [][NextConc]_vars

\* ------------------------------------------------- claims on SpecWrite
\* The lines write_ajt_log has to produce for events 1..n of its list.
LinesOf(evs, n) == Flatten([k \in 1..n |-> LineChunks(json_dumps(evs[k]))])
Returned(c) == wr[c].pc \in {"done", "raised"}

\* C1: writing is append-only: once write_ajt_log has returned (or raised),
\* every chunk that was in the file before the call is still there,
\* unchanged and at the same position.
C1_AppendOnly ==
    \A c \in Callers : Returned(c) => IsPrefix(wr[c].prior, file)

\* C6: a failed batch write leaves no partial line and is not reported as a
\* success: when an event of the list is not JSON-representable the call
\* raises, the file holds exactly the complete lines of the events before
\* it and no chunk of the failing event, and the success message is not
\* printed; the success message is printed only when every event was
\* written.
C6_FailedWriteIsCleanAndLoud ==
    LET w == wr["c1"] IN
    /\ w.pc \in {"raise", "raised"} =>
          /\ w.i <= Len(w.events) /\ ~Serializable(w.events[w.i])
          /\ ~w.reported
          /\ \A k \in 1..Len(w.buf) : w.buf[k].text # json_dumps(w.events[w.i])
          /\ \A k \in 1..Len(file) : file[k].text # json_dumps(w.events[w.i])
    /\ w.pc = "raised" =>
          /\ file = LinesOf(w.events, w.i - 1)
          /\ \A k \in 1..Len(ReadLines(file)) : Parseable(ReadLines(file)[k])
    /\ w.reported =>
          /\ \A k \in 1..Len(w.events) : Serializable(w.events[k])
          /\ file = LinesOf(w.events, Len(w.events))

\* C6's case: the second event of the list failed after the first was written.
C6_Witness ==
    /\ wr["c1"].pc = "raised"
    /\ wr["c1"].i = 2
    /\ Len(ReadLines(file)) = 1

\* The top-level members of the k-th line of the file.
Members(k) == ReadLines(file)[k][1].text.body.members

Body(k) == ReadLines(file)[k][1].text.body

\* C10: after main has run the three scenarios and write_ajt_log, the file
\* holds exactly three lines, line i being the serialization of the i-th
\* event of the list, in the order the scenarios ran: hallucination STOP,
\* human-override ALLOW with human_in_loop true, policy-mismatch STOP.
C10_DemoWritesThreeInOrder ==
    pc = "complete" =>
      /\ Len(events) = 3
      /\ Len(built) = 3
      /\ Len(ReadLines(file)) = 3
      /\ \A k \in 1..3 :
           /\ Parseable(ReadLines(file)[k])
           /\ Body(k) = JsonEnc(events[k])
           /\ events[k] = Dict(built[k].rec)
      /\ [k \in 1..3 |-> Get(Members(k), "decision")]
            = <<JsonEnc(Str("STOP")), JsonEnc(Str("ALLOW")), JsonEnc(Str("STOP"))>>
      /\ [k \in 1..3 |-> Get(Members(k), "reason")]
            = <<JsonEnc(Str("missing_citation")), JsonEnc(Str("human_approved")),
                JsonEnc(Str("policy_version_mismatch"))>>
      /\ [k \in 1..3 |-> Get(Members(k), "human_in_loop").j] = <<"false", "true", "false">>

\* C10's case: main ran to its end.
C10_Witness == pc = "complete" /\ wr["c1"].reported /\ Len(file) > 0

\* How many events of its list write_ajt_log has serialized so far.
Serialized == IF wr["c1"].pc = "idle" THEN 0 ELSE wr["c1"].i - 1

\* C7 as stated: every event is serialized before any later event is
\* constructed, i.e. all events built but the last have been serialized.
C7_EmittedBeforeNextBuilt == Len(built) <= Serialized + 1

\* C7 as amended: an event is not changed between its construction and its
\* emission: the list holds the records exactly as built, and each line of
\* the finished file is the serialization of the record as built, its
\* timestamp the instant of construction (not of serialization).
C7_EmittedAsBuilt ==
    /\ FilterNone(events) = [k \in 1..Len(built) |-> Dict(built[k].rec)]
    /\ pc = "complete" =>
         /\ Len(ReadLines(file)) = Len(built)
         /\ \A k \in 1..Len(built) :
              /\ Body(k) = JsonEnc(Dict(built[k].rec))
              /\ Get(Members(k), "timestamp") = JsonEnc(IsoFormat(built[k].at))

\* C7's case: the file is written and the clock has moved on since the last
\* event was constructed.
C7_Witness ==
    /\ pc = "complete"
    /\ Len(built) = 3
    /\ built[1].at < built[3].at
    /\ built[3].at < now

\* ------------------------------------------------- claims on SpecBuild
\* The members of the k-th text the logger emitted.
Logged(k) == log[k].body.members
\* A serialized value that spells a string / a boolean / nothing, in JSON or
\* in Python's repr.
IsString(e) == e.j \in {"string", "str"}
IsBoolean(e) == e.j \in {"true", "false", "bool"}
IsNull(e) == e.j \in {"null", "none"}
IsEmpty(e) == IsString(e) /\ e.s = "" /\ e.n = 0

\* C3: every record a builder emitted holds the 9 required fields, each
\* non-null and of its type (human_in_loop a boolean, the others strings).
C3_RequiredFieldsPresentAndTyped ==
    \A k \in 1..Len(log) :
      \A i \in 1..Len(RequiredFields) :
        LET f == RequiredFields[i] IN
        /\ HasKey(Logged(k), f)
        /\ ~IsNull(Get(Logged(k), f))
        /\ IF f = "human_in_loop" THEN IsBoolean(Get(Logged(k), f))
           ELSE IsString(Get(Logged(k), f))

\* C5: a build with a required field missing or empty fails and writes
\* nothing: no emitted record has an empty or null model, decision,
\* risk_level or policy_version.
C5_NoEmptyRequiredFieldReachesSink ==
    \A k \in 1..Len(log) :
      \A f \in {"model", "decision", "risk_level", "policy_version"} :
        /\ ~IsNull(Get(Logged(k), f))
        /\ ~IsEmpty(Get(Logged(k), f))

\* C8: in every record built, timestamp, run_id and session_id are
\* non-empty strings, and equal the caller's value whenever the caller gave
\* a non-empty one.
C8_GeneratedWhenOmittedKeptWhenGiven ==
    \A k \in 1..Len(built) :
      \A f \in {"timestamp", "run_id", "session_id"} :
        LET v == Get(built[k].rec, f) IN
        /\ v.t = "str"
        /\ Truthy(v)
        /\ (HasKey(built[k].call, f) /\ Truthy(Get(built[k].call, f)))
              => v = Get(built[k].call, f)

\* Whether the caller of history entry b left field f to the builder.
NotGiven(b, f) == ~HasKey(b.call, f)

\* C4 as stated: any two events built without the caller providing the
\* field differ in timestamp, in run_id and in session_id.
C4_GeneratedFieldsUnique ==
    \A i, j \in 1..Len(built) :
      i < j =>
        \A f \in {"timestamp", "run_id", "session_id"} :
          (NotGiven(built[i], f) /\ NotGiven(built[j], f))
            => Get(built[i].rec, f) # Get(built[j].rec, f)

\* C4 as amended: the values drawn from uuid4 are unique per event: any two
\* records built by create_ajt_event or log_ai_judgment differ in run_id,
\* and any two records log_ai_judgment built without a session_id differ in
\* session_id.
C4_UuidFieldsUnique ==
    \A i, j \in 1..Len(built) :
      (i < j /\ built[i].by # "on_llm_start" /\ built[j].by # "on_llm_start") =>
        /\ Get(built[i].rec, "run_id") # Get(built[j].rec, "run_id")
        /\ ( /\ built[i].by = "log_ai_judgment" /\ built[j].by = "log_ai_judgment"
             /\ NotGiven(built[i], "session_id") /\ NotGiven(built[j], "session_id") )
           => Get(built[i].rec, "session_id") # Get(built[j].rec, "session_id")

\* C4's case: log_ai_judgment built two records at the same instant, both
\* without a session_id.
C4_Witness ==
    /\ Len(built) >= 2
    /\ built[1].by = "log_ai_judgment" /\ built[2].by = "log_ai_judgment"
    /\ NotGiven(built[1], "session_id") /\ NotGiven(built[2], "session_id")
    /\ built[1].at = built[2].at

\* -------------------------------------------------- claims on SpecConc
\* The events the threads passed to write_ajt_log.
WrittenEvents == UNION {{wr[c].events[k] : k \in 1..Len(wr[c].events)} : c \in Callers}
AllReturned == \A c \in Callers : wr[c].pc \in {"idle", "done"} /\ (wr[c].events # <<>> => wr[c].pc = "done")

\* C2: whatever the interleaving of the callers, each sink ends with one
\* complete, parseable line per event written to it: the file one line per
\* event passed to write_ajt_log, the logger one line per log_ai_judgment.
C2_OneCompleteLinePerEvent ==
    /\ Len(log) = Len(SelectSeq(built, LAMBDA b : b.by = "log_ai_judgment"))
    /\ \A k \in 1..Len(log) : log[k].fmt = "json"
    /\ AllReturned =>
         /\ \A k \in 1..Len(ReadLines(file)) : Parseable(ReadLines(file)[k])
         /\ \A e \in WrittenEvents :
              Cardinality({k \in 1..Len(ReadLines(file)) : Body(k) = JsonEnc(e)}) = 1
         /\ Len(ReadLines(file)) = Cardinality(WrittenEvents)

====
